---- MODULE Spec2Model ----
(***************************************************************************)
(* Model of electionguard's KeyCeremonyMediator                            *)
(* (src/src/electionguard/key_ceremony_mediator.py).                       *)
(*                                                                         *)
(* The mediator is a passive object: five insertion-ordered stores and the *)
(* ceremony details.  Every public method is one action; the value the     *)
(* method returns (or the exception it raises) is recorded in `ret`.       *)
(* GuardianDataStore and combine_election_public_keys are defined in       *)
(* key_ceremony.py; they are modelled after their contracts: the           *)
(* insertion-ordered KeyedStore and the commutative Combiner.              *)
(***************************************************************************)
EXTENDS Integers, Sequences, FiniteSets, TLC

VARIABLES
    ceremony_details,                     \* CeremonyDetails
    _auxiliary_public_keys,               \* GuardianDataStore[GuardianId, AuxiliaryPublicKey]
    _election_public_keys,                \* GuardianDataStore[GuardianId, ElectionPublicKey]
    _election_partial_key_backups,        \* GuardianDataStore[GuardianPair, ElectionPartialKeyBackup]
    _election_partial_key_challenges,     \* GuardianDataStore[GuardianPair, ElectionPartialKeyChallenge]
    _election_partial_key_verifications,  \* GuardianDataStore[GuardianPair, ElectionPartialKeyVerification]
    presence,                             \* history: guardians in order of their first
                                          \* confirm_presence_of_guardian since the last reset
    ret,                                  \* the last call: [op, arg, exc, val]
    delivered,                            \* history: the records received since the
                                          \* last reset, and whether the last one
                                          \* received had been received before
    publisher                             \* a publish_joint_key call that other callers
                                          \* interleave with: its position and locals

stores == << _auxiliary_public_keys, _election_public_keys,
             _election_partial_key_backups, _election_partial_key_challenges,
             _election_partial_key_verifications >>

mediator == << ceremony_details, stores >>

vars == << ceremony_details, _auxiliary_public_keys, _election_public_keys,
           _election_partial_key_backups, _election_partial_key_challenges,
           _election_partial_key_verifications, presence, ret,
           delivered, publisher >>

----------------------------------------------------------------------------
(* Bounds of the model *)

\* ceremonies have 1..MaxGuardians expected guardians
MaxGuardians == 2

\* the states explored are those in which the five stores together hold at
\* most MaxEntries entries
MaxEntries == 4

\* the guardian ids that may contact the mediator: a ceremony of fewer
\* guardians also receives records from guardians it does not expect
GuardianId == {"A", "B", "C"}

\* the election public key each guardian announces (an element of the group)
KeyOf(g) == CASE g = "A" -> 2 [] g = "B" -> 3 [] OTHER -> 5

\* modulus of the group the Combiner multiplies in
P == 7

----------------------------------------------------------------------------
(* Ceremony identity types and phase records *)

None == [none |-> TRUE]

GuardianPair(owner_id, designated_id) == << owner_id, designated_id >>

\* the (owner, designated) pairs that records are submitted for: the two pairs
\* between A and B, a pair with C, and a self-addressed pair
PairInputs == { <<"A", "B">>, <<"B", "A">>, <<"C", "A">>, <<"A", "A">> }

\* backups and verifications are also submitted self-addressed by every guardian
SelfPairs == { << g, g >> : g \in GuardianId }

\* 0 < quorum <= number_of_guardians
CeremonyDetails ==
    { [number_of_guardians |-> n, quorum |-> n] : n \in 1..MaxGuardians }

AuxiliaryPublicKey(owner_id) == [owner_id |-> owner_id]

ElectionPublicKey(owner_id, key) == [owner_id |-> owner_id, key |-> key]

PublicKeySet ==
    { [owner_id |-> g, election_public_key |-> KeyOf(g)] : g \in GuardianId }

ElectionPartialKeyBackup(owner_id, designated_id) ==
    [owner_id |-> owner_id, designated_id |-> designated_id]

ElectionPartialKeyVerification(owner_id, designated_id, verified) ==
    [owner_id |-> owner_id, designated_id |-> designated_id, verified |-> verified]

ElectionPartialKeyChallenge(owner_id, designated_id) ==
    [owner_id |-> owner_id, designated_id |-> designated_id]

ElectionJointKey(key) == [joint_public_key |-> key]

----------------------------------------------------------------------------
(* GuardianDataStore: an insertion-ordered mapping, a sequence of entries  *)
(* [key, value] with pairwise distinct keys.                               *)

EmptyStore == << >>

StoreLength(store) == Len(store)

StoreKeys(store) == [i \in 1..Len(store) |-> store[i].key]

StoreValues(store) == [i \in 1..Len(store) |-> store[i].value]

StoreItems(store) == [i \in 1..Len(store) |-> << store[i].key, store[i].value >>]

StoreHas(store, k) == \E i \in 1..Len(store) : store[i].key = k

StoreGet(store, k) ==
    IF StoreHas(store, k)
    THEN store[CHOOSE i \in 1..Len(store) : store[i].key = k].value
    ELSE None

\* insert, or overwrite in place: an overwritten key keeps its position
StoreSet(store, k, v) ==
    IF StoreHas(store, k)
    THEN [i \in 1..Len(store) |->
            IF store[i].key = k THEN [key |-> k, value |-> v] ELSE store[i]]
    ELSE Append(store, [key |-> k, value |-> v])

StoreClear(store) == EmptyStore

----------------------------------------------------------------------------
(* Combiner: the product of the keys in the group, taken in the store's    *)
(* iteration order.                                                        *)

RECURSIVE ProductOf(_)
ProductOf(keys) ==
    IF keys = << >> THEN 1 ELSE (Head(keys) * ProductOf(Tail(keys))) % P

combine_election_public_keys(election_public_keys) ==
    ElectionJointKey(
        ProductOf([i \in 1..Len(election_public_keys) |->
                      election_public_keys[i].value.key]))

----------------------------------------------------------------------------
(* The mediator's queries: what each method returns in the current state   *)

\* the record of a call: the method, its argument and its outcome
Called(op, arg, outcome) ==
    [op |-> op, arg |-> arg, exc |-> outcome.exc, val |-> outcome.val]

\* the outcome of a call: a returned value, or a raised exception
Return(val) == [exc |-> "", val |-> val]

Raise(exception) == [exc |-> exception, val |-> None]

\* mutant: the roster is read off the auxiliary public key store
share_guardians_in_attendance_auxiliary == StoreKeys(_auxiliary_public_keys)

share_guardians_in_attendance == StoreKeys(_election_public_keys)

all_auxiliary_public_keys_available ==
    StoreLength(_auxiliary_public_keys) = ceremony_details.number_of_guardians

share_auxiliary_public_keys == StoreValues(_auxiliary_public_keys)

all_election_public_keys_available ==
    StoreLength(_election_public_keys) = ceremony_details.number_of_guardians

share_election_public_keys == StoreValues(_election_public_keys)

all_guardians_in_attendance ==
    all_auxiliary_public_keys_available /\ all_election_public_keys_available

\* mutant: at least the required number of backups
all_election_partial_key_backups_available_at_least ==
    LET required_backups_per_guardian == ceremony_details.number_of_guardians - 1
    IN  StoreLength(_election_partial_key_backups)
            >= required_backups_per_guardian * ceremony_details.number_of_guardians

all_election_partial_key_backups_available ==
    LET required_backups_per_guardian == ceremony_details.number_of_guardians - 1
    IN  StoreLength(_election_partial_key_backups)
            = required_backups_per_guardian * ceremony_details.number_of_guardians

\* the loop over the attendance roster, from `roster` on
RECURSIVE BackupsToGuardian(_, _)
BackupsToGuardian(roster, guardian_id) ==
    IF roster = << >> THEN << >>
    ELSE LET current_guardian_id == Head(roster)
             backup == StoreGet(_election_partial_key_backups,
                                GuardianPair(current_guardian_id, guardian_id))
             rest == BackupsToGuardian(Tail(roster), guardian_id)
         IN  IF guardian_id # current_guardian_id /\ backup # None
             THEN << backup >> \o rest
             ELSE rest

\* mutant: the backups addressed to the guardian, as the backup store lists them
share_election_partial_key_backups_in_store_order(guardian_id) ==
    SelectSeq(StoreValues(_election_partial_key_backups),
              LAMBDA backup : backup.designated_id = guardian_id)

share_election_partial_key_backups_to_guardian(guardian_id) ==
    BackupsToGuardian(share_guardians_in_attendance, guardian_id)

all_election_partial_key_verifications_received ==
    LET required_verifications_per_guardian == ceremony_details.number_of_guardians - 1
    IN  StoreLength(_election_partial_key_verifications)
            = required_verifications_per_guardian * ceremony_details.number_of_guardians

\* mutant: the loop returns on the first verification it looks at
all_election_partial_key_backups_verified_first_only ==
    IF ~all_election_partial_key_verifications_received THEN FALSE
    ELSE \/ StoreLength(_election_partial_key_verifications) = 0
         \/ StoreValues(_election_partial_key_verifications)[1].verified

\* mutant: only the verifications that are stored are looked at
all_election_partial_key_backups_verified_stored_only ==
    \A i \in 1..Len(_election_partial_key_verifications) :
        StoreValues(_election_partial_key_verifications)[i].verified

all_election_partial_key_backups_verified ==
    IF ~all_election_partial_key_verifications_received THEN FALSE
    ELSE \A i \in 1..Len(_election_partial_key_verifications) :
            StoreValues(_election_partial_key_verifications)[i].verified

share_failed_partial_key_verifications ==
    LET items == StoreItems(_election_partial_key_verifications)
        failed == SelectSeq(items, LAMBDA item : ~item[2].verified)
    IN  [i \in 1..Len(failed) |-> failed[i][1]]

\* list.remove(x): drops the first occurrence of x; ValueError when x is absent
ListRemove(list, x) ==
    IF \E i \in 1..Len(list) : list[i] = x
    THEN LET at == CHOOSE i \in 1..Len(list) :
                      list[i] = x /\ \A j \in 1..(i - 1) : list[j] # x
         IN  Return(SubSeq(list, 1, at - 1) \o SubSeq(list, at + 1, Len(list)))
    ELSE Raise("ValueError")

\* the loop over the challenged pairs, from `pairs` on
RECURSIVE RemoveChallenged(_, _)
RemoveChallenged(failed_verifications, pairs) ==
    IF pairs = << >> THEN Return(failed_verifications)
    ELSE LET removed == ListRemove(failed_verifications, Head(pairs))
         IN  IF removed.exc # "" THEN removed
             ELSE RemoveChallenged(removed.val, Tail(pairs))

share_missing_election_partial_key_challenges ==
    RemoveChallenged(share_failed_partial_key_verifications,
                     StoreKeys(_election_partial_key_challenges))

share_open_election_partial_key_challenges ==
    StoreValues(_election_partial_key_challenges)

\* mutant: the verification gate is left out
publish_joint_key_ungated ==
    IF ~all_election_public_keys_available THEN None
    ELSE combine_election_public_keys(_election_public_keys)

\* mutant: the first stored key is published instead of the combination
publish_joint_key_first ==
    IF ~all_election_public_keys_available THEN None
    ELSE IF ~all_election_partial_key_backups_verified THEN None
    ELSE ElectionJointKey(StoreValues(_election_public_keys)[1].key)

\* mutant: the number of election public keys is not checked
publish_joint_key_any_keys ==
    IF ~all_election_partial_key_backups_verified
    THEN None
    ELSE combine_election_public_keys(_election_public_keys)

publish_joint_key ==
    IF ~all_election_public_keys_available THEN None
    ELSE IF ~all_election_partial_key_backups_verified THEN None
    ELSE combine_election_public_keys(_election_public_keys)

----------------------------------------------------------------------------
(* The mediator's operations *)

\* the number of entries the five stores hold together
TotalEntries ==
    StoreLength(_auxiliary_public_keys) + StoreLength(_election_public_keys)
    + StoreLength(_election_partial_key_backups)
    + StoreLength(_election_partial_key_challenges)
    + StoreLength(_election_partial_key_verifications)

\* the specifications explore the states with at most MaxEntries entries: a
\* call that adds `new` entries is taken only while they fit
Fits(new) == TotalEntries + new <= MaxEntries

NewKey(store, k) == IF StoreHas(store, k) THEN 0 ELSE 1

\* the entries a receipt for `pair` adds to a store that refuses self-pairs
NewPair(store, pair) == IF pair[1] = pair[2] THEN 0 ELSE NewKey(store, pair)

\* no publish_joint_key call is in progress
Idle == [pc |-> "idle", consistent |-> {}]

\* nothing has been received since the last reset
NothingDelivered == [records |-> {}, again |-> FALSE]

\* calls follow one another, and the history of receipts is not kept
Sequential == UNCHANGED << delivered, publisher >>

\* calls follow one another, and the receipt of `record` is entered in the
\* history
Delivery(kind, record) ==
    /\ delivered' = [records |-> delivered.records \cup {<< kind, record >>},
                     again |-> << kind, record >> \in delivered.records]
    /\ UNCHANGED publisher

Init ==
    /\ ceremony_details \in CeremonyDetails
    /\ _auxiliary_public_keys = EmptyStore
    /\ _election_public_keys = EmptyStore
    /\ _election_partial_key_backups = EmptyStore
    /\ _election_partial_key_verifications = EmptyStore
    /\ _election_partial_key_challenges = EmptyStore
    /\ presence = << >>
    /\ ret = Called("__init__", None, Return(None))
    /\ delivered = NothingDelivered
    /\ publisher = Idle

\* mutant: the challenges outlive the reset
reset_keeping_challenges(new_details) ==
    /\ ceremony_details' = new_details
    /\ _auxiliary_public_keys' = StoreClear(_auxiliary_public_keys)
    /\ _election_public_keys' = StoreClear(_election_public_keys)
    /\ _election_partial_key_backups' = StoreClear(_election_partial_key_backups)
    /\ _election_partial_key_verifications' =
           StoreClear(_election_partial_key_verifications)
    /\ presence' = << >>
    /\ ret' = Called("reset", None, Return(None))
    /\ UNCHANGED _election_partial_key_challenges

reset(new_details) ==
    /\ ceremony_details' = new_details
    /\ _auxiliary_public_keys' = StoreClear(_auxiliary_public_keys)
    /\ _election_public_keys' = StoreClear(_election_public_keys)
    /\ _election_partial_key_backups' = StoreClear(_election_partial_key_backups)
    /\ _election_partial_key_challenges' = StoreClear(_election_partial_key_challenges)
    /\ _election_partial_key_verifications' =
           StoreClear(_election_partial_key_verifications)
    /\ presence' = << >>
    /\ ret' = Called("reset", None, Return(None))

receive_auxiliary_public_key(public_key) ==
    /\ _auxiliary_public_keys' =
           StoreSet(_auxiliary_public_keys, public_key.owner_id, public_key)
    /\ ret' = Called("receive_auxiliary_public_key", None, Return(None))
    /\ UNCHANGED << ceremony_details, _election_public_keys,
                    _election_partial_key_backups, _election_partial_key_challenges,
                    _election_partial_key_verifications, presence >>

receive_election_public_key(public_key) ==
    /\ _election_public_keys' =
           StoreSet(_election_public_keys, public_key.owner_id, public_key)
    /\ ret' = Called("receive_election_public_key", None, Return(None))
    /\ UNCHANGED << ceremony_details, _auxiliary_public_keys,
                    _election_partial_key_backups, _election_partial_key_challenges,
                    _election_partial_key_verifications, presence >>

\* mutant: the auxiliary public key of the key set is dropped
confirm_presence_of_guardian_election_only(public_key_set) ==
    /\ _election_public_keys' =
           StoreSet(_election_public_keys, public_key_set.owner_id,
                    ElectionPublicKey(public_key_set.owner_id,
                                      public_key_set.election_public_key))
    /\ presence' =
           IF \E i \in 1..Len(presence) : presence[i] = public_key_set.owner_id
           THEN presence
           ELSE Append(presence, public_key_set.owner_id)
    /\ ret' = Called("confirm_presence_of_guardian", None, Return(None))
    /\ UNCHANGED << ceremony_details, _auxiliary_public_keys,
                    _election_partial_key_backups,
                    _election_partial_key_challenges,
                    _election_partial_key_verifications >>

confirm_presence_of_guardian(public_key_set) ==
    /\ _auxiliary_public_keys' =
           StoreSet(_auxiliary_public_keys, public_key_set.owner_id,
                    AuxiliaryPublicKey(public_key_set.owner_id))
    /\ _election_public_keys' =
           StoreSet(_election_public_keys, public_key_set.owner_id,
                    ElectionPublicKey(public_key_set.owner_id,
                                      public_key_set.election_public_key))
    /\ presence' =
           IF \E i \in 1..Len(presence) : presence[i] = public_key_set.owner_id
           THEN presence
           ELSE Append(presence, public_key_set.owner_id)
    /\ ret' = Called("confirm_presence_of_guardian", None, Return(None))
    /\ UNCHANGED << ceremony_details, _election_partial_key_backups,
                    _election_partial_key_challenges,
                    _election_partial_key_verifications >>

\* mutant: self-addressed backups are stored like any other
receive_election_partial_key_backup_unchecked(backup) ==
    LET pair == GuardianPair(backup.owner_id, backup.designated_id)
    IN  /\ _election_partial_key_backups' =
               StoreSet(_election_partial_key_backups, pair, backup)
        /\ ret' = Called("receive_election_partial_key_backup", None, Return(None))
        /\ UNCHANGED << ceremony_details, _auxiliary_public_keys,
                        _election_public_keys, _election_partial_key_challenges,
                        _election_partial_key_verifications, presence >>

receive_election_partial_key_backup(backup) ==
    /\ IF backup.owner_id = backup.designated_id
       THEN UNCHANGED _election_partial_key_backups
       ELSE LET pair == GuardianPair(backup.owner_id, backup.designated_id)
            IN  _election_partial_key_backups' =
                    StoreSet(_election_partial_key_backups, pair, backup)
    /\ ret' = Called("receive_election_partial_key_backup", None, Return(None))
    /\ UNCHANGED << ceremony_details, _auxiliary_public_keys, _election_public_keys,
                    _election_partial_key_challenges,
                    _election_partial_key_verifications, presence >>

\* mutant: self-addressed verifications are stored like any other
receive_election_partial_key_verification_unchecked(verification) ==
    LET pair == GuardianPair(verification.owner_id, verification.designated_id)
    IN  /\ _election_partial_key_verifications' =
               StoreSet(_election_partial_key_verifications, pair, verification)
        /\ ret' = Called("receive_election_partial_key_verification", None,
                         Return(None))
        /\ UNCHANGED << ceremony_details, _auxiliary_public_keys,
                        _election_public_keys, _election_partial_key_backups,
                        _election_partial_key_challenges, presence >>

receive_election_partial_key_verification(verification) ==
    /\ IF verification.owner_id = verification.designated_id
       THEN UNCHANGED _election_partial_key_verifications
       ELSE LET pair == GuardianPair(verification.owner_id,
                                     verification.designated_id)
            IN  _election_partial_key_verifications' =
                    StoreSet(_election_partial_key_verifications, pair,
                             verification)
    /\ ret' = Called("receive_election_partial_key_verification", None, Return(None))
    /\ UNCHANGED << ceremony_details, _auxiliary_public_keys, _election_public_keys,
                    _election_partial_key_backups, _election_partial_key_challenges,
                    presence >>

\* mutant: every challenge received is kept, also one for a pair that is
\* challenged already
receive_election_partial_key_challenge_listed(challenge) ==
    LET pair == GuardianPair(challenge.owner_id, challenge.designated_id)
    IN  /\ _election_partial_key_challenges' =
               Append(_election_partial_key_challenges,
                      [key |-> pair, value |-> challenge])
        /\ ret' = Called("receive_election_partial_key_challenge", None, Return(None))
        /\ UNCHANGED << ceremony_details, _auxiliary_public_keys,
                        _election_public_keys, _election_partial_key_backups,
                        _election_partial_key_verifications, presence >>

\* mutant: a challenge settles the verification it disputes
receive_election_partial_key_challenge_resolving(challenge) ==
    LET pair == GuardianPair(challenge.owner_id, challenge.designated_id)
    IN  /\ _election_partial_key_challenges' =
               StoreSet(_election_partial_key_challenges, pair, challenge)
        /\ _election_partial_key_verifications' =
               IF StoreHas(_election_partial_key_verifications, pair)
               THEN StoreSet(_election_partial_key_verifications, pair,
                             ElectionPartialKeyVerification(pair[1], pair[2], TRUE))
               ELSE _election_partial_key_verifications
        /\ ret' = Called("receive_election_partial_key_challenge", None, Return(None))
        /\ UNCHANGED << ceremony_details, _auxiliary_public_keys,
                        _election_public_keys, _election_partial_key_backups,
                        presence >>

receive_election_partial_key_challenge(challenge) ==
    LET pair == GuardianPair(challenge.owner_id, challenge.designated_id)
    IN  /\ _election_partial_key_challenges' =
               StoreSet(_election_partial_key_challenges, pair, challenge)
        /\ ret' = Called("receive_election_partial_key_challenge", None, Return(None))
        /\ UNCHANGED << ceremony_details, _auxiliary_public_keys,
                        _election_public_keys, _election_partial_key_backups,
                        _election_partial_key_verifications, presence >>

\* a call of a query: the mediator is left as it is, the outcome is recorded
Query(op, arg, outcome) ==
    /\ ret' = Called(op, arg, outcome)
    /\ UNCHANGED << ceremony_details, _auxiliary_public_keys, _election_public_keys,
                    _election_partial_key_backups, _election_partial_key_challenges,
                    _election_partial_key_verifications, presence >>

Call_all_guardians_in_attendance ==
    Query("all_guardians_in_attendance", None, Return(all_guardians_in_attendance))

Call_share_guardians_in_attendance ==
    Query("share_guardians_in_attendance", None,
          Return(share_guardians_in_attendance))

Call_all_auxiliary_public_keys_available ==
    Query("all_auxiliary_public_keys_available", None,
          Return(all_auxiliary_public_keys_available))

Call_share_auxiliary_public_keys ==
    Query("share_auxiliary_public_keys", None, Return(share_auxiliary_public_keys))

Call_all_election_public_keys_available ==
    Query("all_election_public_keys_available", None,
          Return(all_election_public_keys_available))

Call_share_election_public_keys ==
    Query("share_election_public_keys", None, Return(share_election_public_keys))

Call_all_election_partial_key_backups_available ==
    Query("all_election_partial_key_backups_available", None,
          Return(all_election_partial_key_backups_available))

Call_share_election_partial_key_backups_to_guardian(guardian_id) ==
    Query("share_election_partial_key_backups_to_guardian", guardian_id,
          Return(share_election_partial_key_backups_to_guardian(guardian_id)))

Call_all_election_partial_key_verifications_received ==
    Query("all_election_partial_key_verifications_received", None,
          Return(all_election_partial_key_verifications_received))

Call_all_election_partial_key_backups_verified ==
    Query("all_election_partial_key_backups_verified", None,
          Return(all_election_partial_key_backups_verified))

Call_share_failed_partial_key_verifications ==
    Query("share_failed_partial_key_verifications", None,
          Return(share_failed_partial_key_verifications))

Call_share_missing_election_partial_key_challenges ==
    Query("share_missing_election_partial_key_challenges", None,
          share_missing_election_partial_key_challenges)

Call_share_open_election_partial_key_challenges ==
    Query("share_open_election_partial_key_challenges", None,
          Return(share_open_election_partial_key_challenges))

\* mutant: publishing consumes the election public keys
Call_publish_joint_key_consuming ==
    /\ ret' = Called("publish_joint_key", None, Return(publish_joint_key))
    /\ _election_public_keys' =
           IF publish_joint_key = None THEN _election_public_keys ELSE EmptyStore
    /\ UNCHANGED << ceremony_details, _auxiliary_public_keys,
                    _election_partial_key_backups, _election_partial_key_challenges,
                    _election_partial_key_verifications, presence >>

Call_publish_joint_key ==
    Query("publish_joint_key", None, Return(publish_joint_key))

Next ==
    \/ \E new_details \in CeremonyDetails : reset(new_details) /\ Sequential
    \/ \E public_key_set \in PublicKeySet :
           /\ Fits(NewKey(_auxiliary_public_keys, public_key_set.owner_id)
                   + NewKey(_election_public_keys, public_key_set.owner_id))
           /\ confirm_presence_of_guardian(public_key_set)
           /\ Sequential
    \/ \E g \in GuardianId :
           /\ Fits(NewKey(_auxiliary_public_keys, g))
           /\ receive_auxiliary_public_key(AuxiliaryPublicKey(g))
           /\ Sequential
    \/ \E g \in GuardianId :
           /\ Fits(NewKey(_election_public_keys, g))
           /\ receive_election_public_key(ElectionPublicKey(g, KeyOf(g)))
           /\ Sequential
    \/ \E pair \in PairInputs \cup SelfPairs :
           /\ Fits(NewPair(_election_partial_key_backups, pair))
           /\ receive_election_partial_key_backup(
                  ElectionPartialKeyBackup(pair[1], pair[2]))
           /\ Sequential
    \/ \E pair \in PairInputs \cup SelfPairs, verified \in BOOLEAN :
           /\ Fits(NewPair(_election_partial_key_verifications, pair))
           /\ receive_election_partial_key_verification(
                  ElectionPartialKeyVerification(pair[1], pair[2], verified))
           /\ Sequential
    \/ \E pair \in PairInputs :
           /\ Fits(NewKey(_election_partial_key_challenges, pair))
           /\ receive_election_partial_key_challenge(
                  ElectionPartialKeyChallenge(pair[1], pair[2]))
           /\ Sequential
    \/ Call_all_guardians_in_attendance /\ Sequential
    \/ Call_share_guardians_in_attendance /\ Sequential
    \/ Call_all_auxiliary_public_keys_available /\ Sequential
    \/ Call_share_auxiliary_public_keys /\ Sequential
    \/ Call_all_election_public_keys_available /\ Sequential
    \/ Call_share_election_public_keys /\ Sequential
    \/ Call_all_election_partial_key_backups_available /\ Sequential
    \/ \E guardian_id \in GuardianId :
           Call_share_election_partial_key_backups_to_guardian(guardian_id)
           /\ Sequential
    \/ Call_all_election_partial_key_verifications_received /\ Sequential
    \/ Call_all_election_partial_key_backups_verified /\ Sequential
    \/ Call_share_failed_partial_key_verifications /\ Sequential
    \/ Call_share_missing_election_partial_key_challenges /\ Sequential
    \/ Call_share_open_election_partial_key_challenges /\ Sequential
    \/ Call_publish_joint_key /\ Sequential

Spec == Init /\ [][Next]_vars

----------------------------------------------------------------------------
(* At-least-once delivery: the guardians' records arrive one after another, *)
(* any of them any number of times, and the history of receipts is kept.    *)

\* the records that arrive, each any number of times: the key sets of A and B,
\* the verifications between A and B with either flag, and a backup, a
\* verification and a challenge of A for B and of A for itself
ReplayGuardians == {"A", "B"}

ReplayPairs == { <<"A", "B">>, <<"A", "A">> }

ReplayVerifications ==
    { ElectionPartialKeyVerification(pair[1], pair[2], verified) :
          pair \in ReplayPairs \cup { <<"B", "A">> }, verified \in BOOLEAN }

NextReplay ==
    \/ \E new_details \in CeremonyDetails :
           /\ reset(new_details)
           /\ delivered' = NothingDelivered
           /\ UNCHANGED publisher
    \/ \E public_key_set \in PublicKeySet :
           /\ public_key_set.owner_id \in ReplayGuardians
           /\ Fits(NewKey(_auxiliary_public_keys, public_key_set.owner_id)
                   + NewKey(_election_public_keys, public_key_set.owner_id))
           /\ confirm_presence_of_guardian(public_key_set)
           /\ Delivery("public_key_set", public_key_set)
    \/ \E pair \in ReplayPairs :
           /\ Fits(NewPair(_election_partial_key_backups, pair))
           /\ receive_election_partial_key_backup(
                  ElectionPartialKeyBackup(pair[1], pair[2]))
           /\ Delivery("backup", ElectionPartialKeyBackup(pair[1], pair[2]))
    \/ \E verification \in ReplayVerifications :
           /\ Fits(NewPair(_election_partial_key_verifications,
                           GuardianPair(verification.owner_id,
                                        verification.designated_id)))
           /\ receive_election_partial_key_verification(verification)
           /\ Delivery("verification", verification)
    \/ \E pair \in ReplayPairs :
           /\ Fits(NewKey(_election_partial_key_challenges, pair))
           /\ receive_election_partial_key_challenge(
                  ElectionPartialKeyChallenge(pair[1], pair[2]))
           /\ Delivery("challenge", ElectionPartialKeyChallenge(pair[1], pair[2]))
    \/ Call_all_guardians_in_attendance /\ Sequential
    \/ Call_all_election_partial_key_backups_verified /\ Sequential
    \/ Call_publish_joint_key /\ Sequential

SpecReplay == Init /\ [][NextReplay]_vars

----------------------------------------------------------------------------
(* The backup exchange: guardians confirm their presence and backups        *)
(* arrive, also from a guardian the ceremony does not expect; the mediator  *)
(* is asked whether the exchange is complete and what each guardian is to   *)
(* receive.                                                                 *)

NextExchange ==
    \/ \E public_key_set \in PublicKeySet :
           confirm_presence_of_guardian(public_key_set) /\ Sequential
    \/ \E pair \in PairInputs \cup SelfPairs :
           /\ receive_election_partial_key_backup(
                  ElectionPartialKeyBackup(pair[1], pair[2]))
           /\ Sequential
    \/ Call_all_guardians_in_attendance /\ Sequential
    \/ Call_all_election_partial_key_backups_available /\ Sequential
    \/ \E guardian_id \in GuardianId :
           Call_share_election_partial_key_backups_to_guardian(guardian_id)
           /\ Sequential

SpecExchange == Init /\ [][NextExchange]_vars

----------------------------------------------------------------------------
(* An honest ceremony: the expected guardians, and nobody else, send their  *)
(* key sets, their backups for one another and their (successful)           *)
(* verifications of one another, in any order and any number of times, and  *)
(* a record that the stores do not hold yet is eventually delivered.        *)

CeremonyGuardians == {"A", "B"}

CeremonyPairs ==
    { pair \in CeremonyGuardians \X CeremonyGuardians : pair[1] # pair[2] }

InitCeremony ==
    /\ Init
    /\ ceremony_details.number_of_guardians = Cardinality(CeremonyGuardians)

DeliverKeySet(g) ==
    /\ confirm_presence_of_guardian(
           [owner_id |-> g, election_public_key |-> KeyOf(g)])
    /\ Sequential

DeliverBackup(pair) ==
    /\ receive_election_partial_key_backup(
           ElectionPartialKeyBackup(pair[1], pair[2]))
    /\ Sequential

DeliverVerification(pair) ==
    /\ receive_election_partial_key_verification(
           ElectionPartialKeyVerification(pair[1], pair[2], TRUE))
    /\ Sequential

NextCeremony ==
    \/ \E g \in CeremonyGuardians : DeliverKeySet(g)
    \/ \E pair \in CeremonyPairs : DeliverBackup(pair)
    \/ \E pair \in CeremonyPairs : DeliverVerification(pair)
    \/ Call_all_guardians_in_attendance /\ Sequential
    \/ Call_all_election_partial_key_backups_available /\ Sequential
    \/ Call_all_election_partial_key_backups_verified /\ Sequential
    \/ Call_publish_joint_key /\ Sequential

\* the first delivery of a record
FirstKeySet(g) ==
    ~StoreHas(_election_public_keys, g) /\ DeliverKeySet(g)

FirstBackup(pair) ==
    ~StoreHas(_election_partial_key_backups, pair) /\ DeliverBackup(pair)

FirstVerification(pair) ==
    ~StoreHas(_election_partial_key_verifications, pair)
    /\ DeliverVerification(pair)

SpecCeremony ==
    /\ InitCeremony
    /\ [][NextCeremony]_vars
    /\ \A g \in CeremonyGuardians : WF_stores(FirstKeySet(g))
    /\ \A pair \in CeremonyPairs : WF_stores(FirstBackup(pair))
    /\ \A pair \in CeremonyPairs : WF_stores(FirstVerification(pair))

----------------------------------------------------------------------------
(* Concurrent callers: one caller is in publish_joint_key, which reads the  *)
(* stores in three steps (lines 286, 288 and 290), while other callers'     *)
(* receive_election_public_key, receive_election_partial_key_verification   *)
(* and reset run between those steps.  Each step is atomic.                 *)

\* the election public key store, if a key could be published from the
\* mediator as it is now
ConsistentNow ==
    IF all_election_public_keys_available
       /\ all_election_partial_key_backups_verified
    THEN { _election_public_keys }
    ELSE { }

\* history: the publishable key stores seen since the call in progress began
Observed ==
    /\ publisher' =
           [publisher EXCEPT !.consistent =
               IF publisher.pc = "idle" THEN { } ELSE @ \cup ConsistentNow']
    /\ UNCHANGED delivered

\* line 286: if not self.all_election_public_keys_available(): return None
PublishCheckKeys ==
    /\ publisher.pc = "idle"
    /\ IF ~all_election_public_keys_available
       THEN /\ ret' = Called("publish_joint_key", None, Return(None))
            /\ publisher' = Idle
       ELSE /\ publisher' = [pc |-> "keys_available", consistent |-> ConsistentNow]
            /\ UNCHANGED ret
    /\ UNCHANGED << ceremony_details, _auxiliary_public_keys, _election_public_keys,
                    _election_partial_key_backups, _election_partial_key_challenges,
                    _election_partial_key_verifications, presence, delivered >>

\* line 288: if not self.all_election_partial_key_backups_verified(): return None
PublishCheckVerified ==
    /\ publisher.pc = "keys_available"
    /\ IF ~all_election_partial_key_backups_verified
       THEN /\ ret' = Called("publish_joint_key", None, Return(None))
            /\ publisher' = Idle
       ELSE /\ publisher' = [publisher EXCEPT !.pc = "backups_verified"]
            /\ UNCHANGED ret
    /\ UNCHANGED << ceremony_details, _auxiliary_public_keys, _election_public_keys,
                    _election_partial_key_backups, _election_partial_key_challenges,
                    _election_partial_key_verifications, presence, delivered >>

\* line 290: return combine_election_public_keys(self._election_public_keys)
PublishCombine ==
    /\ publisher.pc = "backups_verified"
    /\ ret' = Called("publish_joint_key", None,
                     Return(combine_election_public_keys(_election_public_keys)))
    /\ publisher' = Idle
    /\ UNCHANGED << ceremony_details, _auxiliary_public_keys, _election_public_keys,
                    _election_partial_key_backups, _election_partial_key_challenges,
                    _election_partial_key_verifications, presence, delivered >>

NextConcurrent ==
    \/ PublishCheckKeys
    \/ PublishCheckVerified
    \/ PublishCombine
    \/ \E new_details \in CeremonyDetails : reset(new_details) /\ Observed
    \/ \E g \in CeremonyGuardians :
           /\ Fits(NewKey(_election_public_keys, g))
           /\ receive_election_public_key(ElectionPublicKey(g, KeyOf(g)))
           /\ Observed
    \/ \E pair \in CeremonyPairs, verified \in BOOLEAN :
           /\ Fits(NewPair(_election_partial_key_verifications, pair))
           /\ receive_election_partial_key_verification(
                  ElectionPartialKeyVerification(pair[1], pair[2], verified))
           /\ Observed

SpecConcurrent == Init /\ [][NextConcurrent]_vars

----------------------------------------------------------------------------
(* Properties *)

\* the number of guardians the ceremony expects
N == ceremony_details.number_of_guardians

KeySet(store) == { store[i].key : i \in 1..Len(store) }

\* the rearrangements of a sequence
Rearrangements(seq) ==
    LET bijections == { f \in [1..Len(seq) -> 1..Len(seq)] :
                          \A i, j \in 1..Len(seq) : i # j => f[i] # f[j] }
    IN  { [i \in 1..Len(seq) |-> seq[f[i]]] : f \in bijections }

SeqToSet(seq) == { seq[i] : i \in 1..Len(seq) }

NoDuplicates(seq) == \A i, j \in 1..Len(seq) : i # j => seq[i] # seq[j]

\* C1: publish_joint_key() returns a joint key exactly when
\* all_election_public_keys_available() and
\* all_election_partial_key_backups_verified() both hold; otherwise it
\* returns None, and it never raises.
C1_PublishGate ==
    ret.op = "publish_joint_key" =>
        /\ ret.exc = ""
        /\ (ret.val # None) <=>
               (all_election_public_keys_available
                /\ all_election_partial_key_backups_verified)

\* a two-guardian ceremony has published its joint key
C1_Witness ==
    /\ ret.op = "publish_joint_key"
    /\ ret.val # None
    /\ N = 2

\* C2: a published joint key depends on the stored election public keys
\* only, not on the order in which they were stored: combining the key
\* store in any other insertion order gives the key that was published.
C2_OrderIndependent ==
    (ret.op = "publish_joint_key" /\ ret.val # None) =>
        \A permuted \in Rearrangements(_election_public_keys) :
            combine_election_public_keys(permuted) = ret.val

\* a joint key over two guardians' keys, the later-named guardian first
C2_Witness ==
    /\ ret.op = "publish_joint_key"
    /\ ret.val # None
    /\ StoreKeys(_election_public_keys) = << "B", "A" >>

\* C3: publish_joint_key() leaves ceremony_details and the five stores as
\* they are, whether it returns a key or None, and a call that follows a
\* call returns the same result.
C3_PublishPure ==
    [][(ret'.op = "publish_joint_key" /\ Call_publish_joint_key) =>
          /\ UNCHANGED mediator
          /\ publish_joint_key' = publish_joint_key
          /\ (ret.op = "publish_joint_key" => ret' = ret)]_vars

\* publish_joint_key() has returned a key and the stores still hold the keys
C3_Witness ==
    /\ ret.op = "publish_joint_key"
    /\ ret.val # None
    /\ StoreLength(_election_public_keys) = 2
    /\ StoreLength(_election_partial_key_verifications) = 2

\* C4: a backup or a verification whose owner_id equals its designated_id
\* changes no store and raises nothing, for every guardian and in every
\* state, so no self-addressed pair is ever a key of the backup store or of
\* the verification store.
C4_SelfPairIgnored ==
    /\ [](\A g \in GuardianId :
            /\ ~StoreHas(_election_partial_key_backups, GuardianPair(g, g))
            /\ ~StoreHas(_election_partial_key_verifications, GuardianPair(g, g)))
    /\ [][\A g \in GuardianId :
            (\/ /\ ret'.op = "receive_election_partial_key_backup"
                /\ receive_election_partial_key_backup(
                       ElectionPartialKeyBackup(g, g))
             \/ /\ ret'.op = "receive_election_partial_key_verification"
                /\ \E verified \in BOOLEAN :
                       receive_election_partial_key_verification(
                           ElectionPartialKeyVerification(g, g, verified)))
            => (UNCHANGED mediator /\ ret'.exc = "")]_vars

\* a self-addressed backup was submitted to a mediator in attendance phase
\* and the backup store is still empty
C4_Witness ==
    /\ ret.op = "receive_election_partial_key_backup"
    /\ ret.exc = ""
    /\ _election_partial_key_backups = EmptyStore
    /\ StoreLength(_election_public_keys) = 2

\* C5: all_election_partial_key_backups_available() is true exactly when
\* the backup store holds n*(n-1) distinct pairs, false for every other
\* count (n*(n-1)-1 included), and a backup resubmitted for a stored pair
\* does not change the count.
C5_BackupsAvailableExact ==
    /\ [](ret.op = "all_election_partial_key_backups_available" =>
            (ret.val <=>
                Cardinality(KeySet(_election_partial_key_backups)) = N * (N - 1)))
    /\ [][\A pair \in PairInputs :
            (/\ ret'.op = "receive_election_partial_key_backup"
             /\ StoreHas(_election_partial_key_backups, pair)
             /\ receive_election_partial_key_backup(
                    ElectionPartialKeyBackup(pair[1], pair[2])))
            => /\ StoreLength(_election_partial_key_backups')
                    = StoreLength(_election_partial_key_backups)
               /\ KeySet(_election_partial_key_backups')
                    = KeySet(_election_partial_key_backups)]_vars

\* both backups of a two-guardian ceremony are stored and the predicate is true
C5_Witness ==
    /\ ret.op = "all_election_partial_key_backups_available"
    /\ ret.val
    /\ N = 2
    /\ StoreLength(_election_partial_key_backups) = 2

\* C6: all_election_partial_key_backups_verified() is true exactly when the
\* verification store holds n*(n-1) entries and every one of them has
\* verified = TRUE; storing a verification with verified = FALSE (a first
\* one, or over a TRUE one) makes it false.
C6_VerifiedExact ==
    /\ [](ret.op = "all_election_partial_key_backups_verified" =>
            (ret.val <=>
                /\ Cardinality(KeySet(_election_partial_key_verifications))
                       = N * (N - 1)
                /\ \A i \in 1..Len(_election_partial_key_verifications) :
                       _election_partial_key_verifications[i].value.verified))
    /\ [][\A pair \in PairInputs :
            (/\ ret'.op = "receive_election_partial_key_verification"
             /\ pair[1] # pair[2]
             /\ receive_election_partial_key_verification(
                    ElectionPartialKeyVerification(pair[1], pair[2], FALSE)))
            => ~all_election_partial_key_backups_verified']_vars

\* a complete set of verifications, one of them failed: the predicate is false
C6_Witness ==
    /\ ret.op = "all_election_partial_key_backups_verified"
    /\ ~ret.val
    /\ N = 2
    /\ StoreLength(_election_partial_key_verifications) = 2
    /\ _election_partial_key_verifications[1].value.verified
    /\ ~_election_partial_key_verifications[2].value.verified

\* C7: share_election_partial_key_backups_to_guardian(g) returns, without
\* raising and whether or not g is in attendance, exactly the stored
\* backups for the pairs (o, g) with o in the attendance roster and o # g,
\* in the order of the roster; the empty list when there is none.
C7_BackupsToGuardian ==
    ret.op = "share_election_partial_key_backups_to_guardian" =>
        LET g == ret.arg
            result == ret.val
            roster == share_guardians_in_attendance
            Position(o) == CHOOSE i \in 1..Len(roster) : roster[i] = o
            InRoster(o) == \E i \in 1..Len(roster) : roster[i] = o
        IN  /\ ret.exc = ""
            /\ \A i \in 1..Len(result) :
                   /\ result[i].designated_id = g
                   /\ result[i].owner_id # g
                   /\ InRoster(result[i].owner_id)
                   /\ StoreGet(_election_partial_key_backups,
                               GuardianPair(result[i].owner_id, g)) = result[i]
            /\ \A o \in GuardianId :
                   (/\ InRoster(o)
                    /\ o # g
                    /\ StoreHas(_election_partial_key_backups, GuardianPair(o, g)))
                   => \E i \in 1..Len(result) : result[i].owner_id = o
            /\ \A i, j \in 1..Len(result) :
                   i < j => Position(result[i].owner_id) < Position(result[j].owner_id)

\* two backups are returned to a guardian that is not in attendance, in the
\* roster's order, which is not the order the backups were stored in
C7_Witness ==
    /\ ret.op = "share_election_partial_key_backups_to_guardian"
    /\ ret.arg = "A"
    /\ Len(ret.val) = 2
    /\ share_guardians_in_attendance = << "C", "B" >>
    /\ StoreKeys(_election_partial_key_backups) = << <<"B", "A">>, <<"C", "A">> >>

\* C8 as claimed: share_guardians_in_attendance() lists the guardians that
\* have confirmed presence since the last reset, once each, in the order of
\* their first confirm_presence_of_guardian call.
C8_RosterIsConfirmationOrder ==
    /\ NoDuplicates(share_guardians_in_attendance)
    /\ SelectSeq(share_guardians_in_attendance,
                 LAMBDA g : g \in SeqToSet(presence)) = presence

\* C8 as amended: share_guardians_in_attendance() lists the guardians whose
\* election public key was received since the last reset (by
\* confirm_presence_of_guardian or by receive_election_public_key), once
\* each, in the order of the first receipt: a first receipt appends the
\* guardian, a guardian that announces again keeps its position and the
\* length, reset empties the roster and no other operation changes it.
C8_RosterIsKeyReceiptOrder ==
    /\ [](NoDuplicates(share_guardians_in_attendance))
    /\ [][LET before == share_guardians_in_attendance
              after == share_guardians_in_attendance'
              announcing == { "confirm_presence_of_guardian",
                              "receive_election_public_key" }
          IN  /\ ret'.op = "reset" => after = << >>
              /\ ret'.op \in announcing =>
                     \E g \in GuardianId :
                         after = IF g \in SeqToSet(before)
                                 THEN before ELSE Append(before, g)
              /\ \A public_key_set \in PublicKeySet :
                     (/\ ret'.op = "confirm_presence_of_guardian"
                      /\ confirm_presence_of_guardian(public_key_set))
                     => /\ public_key_set.owner_id \in SeqToSet(after)
                        /\ public_key_set.owner_id \in SeqToSet(before)
                               => after = before
              /\ ret'.op \notin (announcing \cup {"reset"}) => after = before]_vars

\* B's election public key was received before A confirmed presence; B then
\* confirmed presence and kept the first position of the roster
C8_Witness ==
    /\ ret.op = "confirm_presence_of_guardian"
    /\ share_guardians_in_attendance = << "B", "A" >>
    /\ presence = << "A", "B" >>

\* C9 as claimed: share_missing_election_partial_key_challenges() returns
\* the pairs whose stored verification has verified = FALSE and for which no
\* challenge is stored: the failed verifications minus the challenged pairs.
C9_MissingIsSetDifference ==
    ret.op = "share_missing_election_partial_key_challenges" =>
        /\ ret.exc = ""
        /\ NoDuplicates(ret.val)
        /\ SeqToSet(ret.val) =
               SeqToSet(share_failed_partial_key_verifications)
               \ KeySet(_election_partial_key_challenges)

\* C10 as claimed: no operation of the mediator raises.
C10_NoOperationRaises == ret.exc = ""

\* C11: from any reachable state, reset(new_details) leaves all five stores
\* with length 0 and ceremony_details equal to new_details, so that afterwards
\* the completion predicates and publish_joint_key answer for new_details and
\* empty stores: nobody is in attendance, nothing is published, and the
\* backups and verifications count as complete only in a ceremony of one.
C11_ResetClears ==
    [][\A new_details \in CeremonyDetails :
          (ret'.op = "reset" /\ reset(new_details)) =>
              /\ ceremony_details' = new_details
              /\ \A i \in 1..Len(stores) : StoreLength(stores'[i]) = 0
              /\ ~all_guardians_in_attendance'
              /\ share_guardians_in_attendance' = << >>
              /\ all_election_partial_key_backups_available'
                     = (new_details.number_of_guardians = 1)
              /\ all_election_partial_key_backups_verified'
                     = (new_details.number_of_guardians = 1)
              /\ publish_joint_key' = None]_vars

\* a reset to a ceremony of one has just returned
C11_Witness ==
    /\ ret.op = "reset"
    /\ TotalEntries = 0
    /\ ceremony_details.number_of_guardians = 1

\* the completion predicates and the publication answer after the step as before
SameAnswers ==
    /\ all_guardians_in_attendance' = all_guardians_in_attendance
    /\ all_election_partial_key_backups_available'
           = all_election_partial_key_backups_available
    /\ all_election_partial_key_backups_verified'
           = all_election_partial_key_backups_verified
    /\ publish_joint_key' = publish_joint_key

\* C12 (as stated): a record received again, with no reset since it was first
\* received, leaves ceremony_details, the five stores, the completion
\* predicates and the result of publish_joint_key as they were.
C12_ReplayHarmless ==
    [][delivered'.again => (UNCHANGED mediator /\ SameAnswers)]_vars

\* C12 (amended): a record received again while it is still the record stored
\* for its key (or, for a self-addressed backup or verification, was ignored)
\* leaves ceremony_details, the five stores, the completion predicates and the
\* result of publish_joint_key as they were.
C12_ReplayOfStoredHarmless ==
    [][/\ \A public_key_set \in PublicKeySet :
             ( /\ ret'.op = "confirm_presence_of_guardian"
               /\ confirm_presence_of_guardian(public_key_set)
               /\ << "public_key_set", public_key_set >> \in delivered.records
               /\ StoreGet(_auxiliary_public_keys, public_key_set.owner_id)
                      = AuxiliaryPublicKey(public_key_set.owner_id)
               /\ StoreGet(_election_public_keys, public_key_set.owner_id)
                      = ElectionPublicKey(public_key_set.owner_id,
                                          public_key_set.election_public_key) )
             => (UNCHANGED mediator /\ SameAnswers)
       /\ \A pair \in ReplayPairs :
             LET backup == ElectionPartialKeyBackup(pair[1], pair[2])
             IN  ( /\ ret'.op = "receive_election_partial_key_backup"
                   /\ receive_election_partial_key_backup(backup)
                   /\ << "backup", backup >> \in delivered.records
                   /\ \/ pair[1] = pair[2]
                      \/ StoreGet(_election_partial_key_backups, pair) = backup )
                 => (UNCHANGED mediator /\ SameAnswers)
       /\ \A verification \in ReplayVerifications :
             LET pair == GuardianPair(verification.owner_id,
                                      verification.designated_id)
             IN  ( /\ ret'.op = "receive_election_partial_key_verification"
                   /\ receive_election_partial_key_verification(verification)
                   /\ << "verification", verification >> \in delivered.records
                   /\ \/ pair[1] = pair[2]
                      \/ StoreGet(_election_partial_key_verifications, pair)
                             = verification )
                 => (UNCHANGED mediator /\ SameAnswers)
       /\ \A pair \in ReplayPairs :
             LET challenge == ElectionPartialKeyChallenge(pair[1], pair[2])
             IN  ( /\ ret'.op = "receive_election_partial_key_challenge"
                   /\ receive_election_partial_key_challenge(challenge)
                   /\ << "challenge", challenge >> \in delivered.records
                   /\ StoreGet(_election_partial_key_challenges, pair) = challenge )
                 => (UNCHANGED mediator /\ SameAnswers)]_vars

\* A's verification of B's backup was received with either flag, and the one
\* received last has just been received again: it is the stored one
C12_Witness ==
    /\ delivered.again
    /\ ret.op = "receive_election_partial_key_verification"
    /\ delivered.records =
           { << "verification", ElectionPartialKeyVerification("A", "B", TRUE) >>,
             << "verification", ElectionPartialKeyVerification("A", "B", FALSE) >> }
    /\ StoreGet(_election_partial_key_verifications, GuardianPair("A", "B"))
           = ElectionPartialKeyVerification("A", "B", FALSE)

\* C13 (as stated): every GuardianPair that is a key of the backup store, the
\* verification store or the challenge store has owner_id # designated_id.
C13_NoSelfPairStored ==
    \A pair \in KeySet(_election_partial_key_backups)
                 \cup KeySet(_election_partial_key_verifications)
                 \cup KeySet(_election_partial_key_challenges) :
        pair[1] # pair[2]

\* C13 (amended): every GuardianPair that is a key of the backup store or of
\* the verification store has owner_id # designated_id; a self-addressed
\* challenge is stored under its pair like any other challenge.
C13_NoSelfPairBackedUpOrVerified ==
    /\ [](\A pair \in KeySet(_election_partial_key_backups)
                      \cup KeySet(_election_partial_key_verifications) :
             pair[1] # pair[2])
    /\ [][\A pair \in PairInputs :
             ( /\ ret'.op = "receive_election_partial_key_challenge"
               /\ receive_election_partial_key_challenge(
                      ElectionPartialKeyChallenge(pair[1], pair[2])) )
             => StoreGet(_election_partial_key_challenges', pair)
                    = ElectionPartialKeyChallenge(pair[1], pair[2])]_vars

\* backups and verifications were received, and A's challenge of itself is
\* stored
C13_Witness ==
    /\ StoreHas(_election_partial_key_challenges, GuardianPair("A", "A"))
    /\ StoreLength(_election_partial_key_backups) > 0
    /\ StoreLength(_election_partial_key_verifications) > 0

\* C15 (as stated): whenever publish_joint_key returns a key, the guardians
\* are all in attendance: the auxiliary and the election public key store both
\* hold number_of_guardians entries.
C15_PublishedInAttendance ==
    (ret.op = "publish_joint_key" /\ ret.val # None) =>
        /\ all_guardians_in_attendance
        /\ StoreLength(_auxiliary_public_keys) = N
        /\ StoreLength(_election_public_keys) = N

\* C15 (amended): whenever publish_joint_key returns a key, the election
\* public keys are all available: the election public key store holds
\* number_of_guardians entries (the auxiliary store may hold any number).
C15_PublishedWithElectionKeys ==
    (ret.op = "publish_joint_key" /\ ret.val # None) =>
        /\ all_election_public_keys_available
        /\ StoreLength(_election_public_keys) = N

\* a key was published for a ceremony of two whose guardians sent election
\* public keys and verifications but no auxiliary public key
C15_Witness ==
    /\ ret.op = "publish_joint_key"
    /\ ret.val # None
    /\ N = 2
    /\ StoreLength(_auxiliary_public_keys) = 0
    /\ ~all_guardians_in_attendance

\* C16 (as stated): whenever publish_joint_key returns a key, the backup
\* exchange is complete: all_election_partial_key_backups_available() is true.
C16_PublishedAfterBackups ==
    (ret.op = "publish_joint_key" /\ ret.val # None) =>
        all_election_partial_key_backups_available

\* C16 (amended): whenever publish_joint_key returns a key, the verification
\* exchange is complete: the verification store holds n(n-1) entries, every one
\* of them with verified = true (the backup store may hold any number).
C16_PublishedAfterVerifications ==
    (ret.op = "publish_joint_key" /\ ret.val # None) =>
        /\ all_election_partial_key_verifications_received
        /\ StoreLength(_election_partial_key_verifications) = N * (N - 1)
        /\ \A i \in 1..Len(_election_partial_key_verifications) :
               StoreValues(_election_partial_key_verifications)[i].verified

\* a key was published for a ceremony of two of which the mediator received
\* both verifications and no backup
C16_Witness ==
    /\ ret.op = "publish_joint_key"
    /\ ret.val # None
    /\ N = 2
    /\ StoreLength(_election_partial_key_backups) = 0
    /\ StoreLength(_election_partial_key_verifications) = 2

\* the verification stored for `pair` has verified = false
Failed(pair) ==
    /\ StoreHas(_election_partial_key_verifications, pair)
    /\ ~StoreGet(_election_partial_key_verifications, pair).verified

\* C17: while a verification with verified = false is stored,
\* publish_joint_key returns None; the verification stays stored and failed
\* until a reset or the receipt of a verification with verified = true for
\* its pair; and receive_election_partial_key_challenge changes neither
\* all_election_partial_key_backups_verified(), nor the result of
\* publish_joint_key, nor any store but the challenge store.
C17_FailedVerificationBlocks ==
    /\ []((\E pair \in KeySet(_election_partial_key_verifications) : Failed(pair))
            => /\ publish_joint_key = None
               /\ ~all_election_partial_key_backups_verified
               /\ (ret.op = "publish_joint_key" => ret.val = None))
    /\ [][\A pair \in KeySet(_election_partial_key_verifications) :
             Failed(pair) =>
                 \/ Failed(pair)'
                 \/ ret'.op = "reset"
                 \/ /\ ret'.op = "receive_election_partial_key_verification"
                    /\ receive_election_partial_key_verification(
                           ElectionPartialKeyVerification(pair[1], pair[2], TRUE))]_vars
    /\ [][ret'.op = "receive_election_partial_key_challenge" =>
             /\ all_election_partial_key_backups_verified'
                    = all_election_partial_key_backups_verified
             /\ publish_joint_key' = publish_joint_key
             /\ UNCHANGED << ceremony_details, _auxiliary_public_keys,
                             _election_public_keys, _election_partial_key_backups,
                             _election_partial_key_verifications >>]_vars

\* both election public keys and both verifications of a ceremony of two were
\* received, one verification failed, and publish_joint_key returned None
C17_Witness ==
    /\ ret.op = "publish_joint_key"
    /\ ret.val = None
    /\ N = 2
    /\ all_election_public_keys_available
    /\ all_election_partial_key_verifications_received
    /\ Failed(GuardianPair("A", "B"))

\* C20: whenever publish_joint_key returns a key, a verification with
\* verified = true is stored for every ordered pair (a, b) of distinct
\* guardians whose election public keys are combined into it.
C20_PublishedKeysVerified ==
    (ret.op = "publish_joint_key" /\ ret.val # None) =>
        \A a \in KeySet(_election_public_keys),
           b \in KeySet(_election_public_keys) :
            a # b =>
                /\ StoreHas(_election_partial_key_verifications, GuardianPair(a, b))
                /\ StoreGet(_election_partial_key_verifications,
                            GuardianPair(a, b)).verified

\* C19: when all guardians are in attendance and all backups are available, a
\* backup is stored for every ordered pair of distinct guardians of the
\* roster, and share_election_partial_key_backups_to_guardian(g) returns
\* exactly n - 1 backups for every guardian g of the roster.
C19_CompleteBackupsCoverRoster ==
    (all_guardians_in_attendance /\ all_election_partial_key_backups_available) =>
        /\ \A a \in SeqToSet(share_guardians_in_attendance),
              b \in SeqToSet(share_guardians_in_attendance) :
               a # b => StoreHas(_election_partial_key_backups, GuardianPair(a, b))
        /\ \A g \in SeqToSet(share_guardians_in_attendance) :
               Len(share_election_partial_key_backups_to_guardian(g)) = N - 1

\* the n guardians confirmed their presence, and the backup and the true
\* verification of every ordered pair of them were received
CeremonyComplete ==
    /\ SeqToSet(presence) = CeremonyGuardians
    /\ Len(presence) = N
    /\ \A pair \in CeremonyPairs :
           /\ StoreHas(_election_partial_key_backups, pair)
           /\ StoreHas(_election_partial_key_verifications, pair)
           /\ StoreGet(_election_partial_key_verifications, pair).verified

\* C14: once exactly n distinct guardians have confirmed their presence and
\* the n(n-1) backups and the n(n-1) true verifications between them have
\* been received, in whatever order and however often each record arrived,
\* all_guardians_in_attendance() is true and publish_joint_key() returns a
\* key; and when every record is eventually delivered the ceremony reaches
\* that state and stays in it.
C14_OrderDoesNotMatter ==
    /\ [](CeremonyComplete =>
             /\ all_guardians_in_attendance
             /\ publish_joint_key # None
             /\ (ret.op = "publish_joint_key" => ret.val # None)
             /\ (ret.op = "all_guardians_in_attendance" => ret.val = TRUE))
    /\ <>[](CeremonyComplete /\ publish_joint_key # None)

\* the ceremony is complete and the key was published, B having confirmed
\* before A and the verifications having arrived in the opposite order of
\* the backups
C14_Witness ==
    /\ CeremonyComplete
    /\ ret.op = "publish_joint_key"
    /\ ret.val # None
    /\ presence = << "B", "A" >>
    /\ StoreKeys(_election_partial_key_backups)[1]
           # StoreKeys(_election_partial_key_verifications)[1]

\* C18: with other callers' operations running between the store accesses of
\* publish_joint_key, the key store a returned joint key is combined from is
\* one that, at some instant of the call, held exactly number_of_guardians
\* entries while all n(n-1) verifications were stored with verified = true.
C18_PublishedFromConsistentInstant ==
    [][(publisher.pc = "backups_verified" /\ publisher'.pc = "idle"
           /\ ret'.op = "publish_joint_key" /\ ret'.val # None) =>
          _election_public_keys \in publisher.consistent]_vars

====
